---- MODULE Spec2Model ----
\* Model of src/model_monitoring/monitor.py: the script that uploads the
\* automatic-retraining parameters, creates or updates a Vertex AI model
\* monitoring job, and wires its anomaly logs to a Pub/Sub topic.
\*
\* Strings that the code splits on "/" (resource names, the gs:// path of the
\* parameters) are modelled as the sequence of their "/"-separated segments;
\* Python dicts are modelled as insertion-ordered sequences of <<key, value>>
\* pairs (with a flag for None).
EXTENDS Naturals, Sequences, FiniteSets, TLC

VARIABLES
    pc,          \* per invocation: position in the script
    config,      \* per invocation: the mapping yaml.load returned
    error,       \* per invocation: the uncaught exception, if any
    job_list,    \* per invocation: local job_list (line 210)
    job,         \* per invocation: id of the job returned by create/update
    sink_found,  \* per invocation: result of sink.exists() (line 111)
    calls,       \* per invocation: history of the external calls issued
    jobs0,       \* per invocation: job registry when create_or_update_monitoring_job was entered
    sinks0,      \* per invocation: sink registry when create_or_update_monitoring_job was entered
    runs,        \* number of script runs started
    jobs,        \* remote: the monitoring-job registry
    sinks,       \* remote: the log-sink registry
    blobs,       \* remote: objects in the storage bucket
    local_file,  \* local: model_monitoring/automatic_retraining_parameters.json
    iam          \* remote: projects in which cloud-logs holds roles/pubsub.publisher

vars == <<pc, config, error, job_list, job, sink_found, calls, jobs0, sinks0,
          runs, jobs, sinks, blobs, local_file, iam>>

\* ---------------------------------------------------------------- bounds

\* Number of script runs one invoker performs one after the other.
MaxRuns == 2

\* The invocations: 1 is the single invoker; 2 only runs in SpecConc.
Procs == {1, 2}

\* ------------------------------------------------------- Python values

Last(s) == s[Len(s)]

PyNone == [none |-> TRUE, items |-> <<>>]

Dict(items) == [none |-> FALSE, items |-> items]

\* Truth value of a dict-or-None (`if d:`).
Truthy(d) == ~d.none /\ Len(d.items) > 0

HasKey(d, k) == \E i \in 1..Len(d.items) : d.items[i][1] = k

\* d[k] = v on a dict: an existing key keeps its position, a new key is appended.
DictSet(d, k, v) ==
    IF HasKey(d, k)
    THEN [d EXCEPT !.items =
            [i \in 1..Len(d.items) |->
                IF d.items[i][1] = k THEN <<k, v>> ELSE d.items[i]]]
    ELSE [d EXCEPT !.items = Append(d.items, <<k, v>>)]

\* json.dumps(d, indent=4): one "key": value line per item, in dict order.
JsonDumps(d) ==
    [i \in 1..Len(d.items) |-> [key |-> d.items[i][1], value |-> d.items[i][2]]]

\* ------------------------------------------------------- configuration

GcpKeys == {"project_id", "storage_bucket_name", "pubsub_topic_name"}

MonitoringKeys ==
    {"alert_emails", "auto_retraining_params", "drift_thresholds",
     "skew_thresholds", "gs_auto_retraining_params_path", "job_display_name",
     "log_sink_name", "model_endpoint", "monitoring_interval",
     "monitoring_location", "sample_rate", "target_field", "training_dataset"}

PipelinesKeys == {"gs_pipeline_job_spec_path"}

Keys == GcpKeys \cup MonitoringKeys \cup PipelinesKeys

\* Keys read by the condition on line 276.
ReadsCondition == <<"auto_retraining_params">>

\* Keys read to build the arguments on lines 278-281, in evaluation order.
ReadsUpload ==
    <<"auto_retraining_params", "gs_auto_retraining_params_path",
      "gs_pipeline_job_spec_path", "storage_bucket_name">>

\* Keys read to build the arguments on lines 284-298, in evaluation order.
ReadsJob ==
    <<"alert_emails", "auto_retraining_params", "drift_thresholds",
      "gs_auto_retraining_params_path", "job_display_name", "log_sink_name",
      "model_endpoint", "monitoring_interval", "monitoring_location",
      "project_id", "pubsub_topic_name", "sample_rate", "skew_thresholds",
      "target_field", "training_dataset">>

\* Whether some key of the sequence `reads` is absent from the mapping.
MissingIn(c, reads) == \E i \in 1..Len(reads) : reads[i] \in c.missing

\* The first absent key, the one the KeyError names.
FirstMissing(c, reads) ==
    reads[CHOOSE i \in 1..Len(reads) :
            /\ reads[i] \in c.missing
            /\ \A j \in 1..(i - 1) : reads[j] \notin c.missing]

ParamChoices == {PyNone, Dict(<<>>), Dict(<<<<"a", "1">>>>)}

ThresholdChoices == {Dict(<<>>), Dict(<<<<"f1", "0.1">>>>)}

EndpointName(id) == <<"projects", "p", "locations", "us-central1", "endpoints", id>>

DefaultConfig ==
    [missing |-> {},
     project_id |-> "p",
     storage_bucket_name |-> "b",
     pubsub_topic_name |-> "t",
     alert_emails |-> <<"a@x.org">>,
     auto_retraining_params |-> PyNone,
     drift_thresholds |-> Dict(<<<<"f1", "0.1">>>>),
     skew_thresholds |-> Dict(<<>>),
     gs_auto_retraining_params_path |-> <<"gs:", "", "b", "params", "p.json">>,
     job_display_name |-> "job1",
     log_sink_name |-> "sink1",
     model_endpoint |-> EndpointName("123"),
     monitoring_interval |-> 1,
     monitoring_location |-> "us-central1",
     sample_rate |-> "0.8",
     target_field |-> "label",
     training_dataset |-> "bq://p.ds.train",
     gs_pipeline_job_spec_path |-> "gs://b/spec.json"]

\* Complete configurations: every combination of retraining parameters,
\* thresholds and display name; a second sink name; an unknown endpoint.
FullConfigs ==
    {[DefaultConfig EXCEPT
        !.auto_retraining_params = a,
        !.drift_thresholds = d,
        !.skew_thresholds = s,
        !.job_display_name = n] :
        a \in ParamChoices, d \in ThresholdChoices, s \in ThresholdChoices,
        n \in {"job1", "job2"}}
    \cup
    {[DefaultConfig EXCEPT
        !.auto_retraining_params = Dict(<<<<"a", "1">>>>),
        !.job_display_name = n,
        !.log_sink_name = "sink2"] : n \in {"job1", "job2"}}
    \cup
    {[DefaultConfig EXCEPT
        !.auto_retraining_params = a,
        !.model_endpoint = EndpointName("999")] : a \in ParamChoices}

\* Configurations lacking one key, or one whole section.
MissingChoices ==
    {{k} : k \in Keys} \cup {GcpKeys, MonitoringKeys, PipelinesKeys}

MissingConfigs ==
    {[DefaultConfig EXCEPT !.missing = m, !.auto_retraining_params = a] :
        m \in MissingChoices, a \in ParamChoices}

Configs == FullConfigs \cup MissingConfigs

\* ------------------------------------------------------ remote platform

\* The endpoint registry (never changed by the script).
Endpoints == {[location |-> "us-central1", id |-> "123"]}

NoError == [kind |-> "none", a |-> <<>>, b |-> ""]

Call(op, id, name) == [op |-> op, id |-> id, name |-> name]

Ops(p) == [i \in 1..Len(calls[p]) |-> calls[p][i].op]

Count(p, op) == Cardinality({i \in 1..Len(calls[p]) : calls[p][i].op = op})

\* All orderings of a finite set, as sequences without repetition.
Orderings(S) ==
    {s \in [1..Cardinality(S) -> S] : \A i, j \in 1..Cardinality(S) : s[i] = s[j] => i = j}

\* Lines 176-192: the objective configuration.
NoConfig == [present |-> FALSE, thresholds |-> <<>>, data_source |-> "", target_field |-> ""]

\* Mutant of SkewDetectionConfig: tests `is not None` instead of truthiness.
SkewDetectionConfigNotNone(c) ==
    IF ~c.skew_thresholds.none
    THEN [present |-> TRUE, thresholds |-> c.skew_thresholds.items,
          data_source |-> c.training_dataset, target_field |-> c.target_field]
    ELSE NoConfig

SkewDetectionConfig(c) ==
    IF Truthy(c.skew_thresholds)
    THEN [present |-> TRUE, thresholds |-> c.skew_thresholds.items,
          data_source |-> c.training_dataset, target_field |-> c.target_field]
    ELSE NoConfig

DriftDetectionConfig(c) ==
    IF Truthy(c.drift_thresholds)
    THEN [present |-> TRUE, thresholds |-> c.drift_thresholds.items,
          data_source |-> "", target_field |-> ""]
    ELSE NoConfig

ObjectiveConfig(c) ==
    [skew |-> SkewDetectionConfig(c),
     drift |-> DriftDetectionConfig(c),
     explanation |-> NoConfig]

\* Lines 194-207: sampling, schedule and alerting configurations.
RandomSampleConfig(c) == [sample_rate |-> c.sample_rate]

ScheduleConfig(c) == [monitor_interval |-> c.monitoring_interval]

EmailAlertConfig(c) == [user_emails |-> c.alert_emails, enable_logging |-> TRUE]

JobResourceName(c, id) ==
    <<"projects", c.project_id, "locations", c.monitoring_location,
      "modelDeploymentMonitoringJobs", id>>

\* The job resource the create call on lines 214-223 asks for.
NewJob(c, id) ==
    [resource_name |-> JobResourceName(c, id),
     display_name |-> c.job_display_name,
     logging_sampling_strategy |-> RandomSampleConfig(c),
     schedule_config |-> ScheduleConfig(c),
     alert_config |-> EmailAlertConfig(c),
     objective_configs |-> ObjectiveConfig(c),
     endpoint |-> c.model_endpoint,
     enable_monitoring_pipeline_logs |-> TRUE]

\* The job resource after the update call on lines 227-233.
UpdatedJob(j, c) ==
    [j EXCEPT
        !.display_name = c.job_display_name,
        !.logging_sampling_strategy = RandomSampleConfig(c),
        !.schedule_config = ScheduleConfig(c),
        !.alert_config = EmailAlertConfig(c),
        !.objective_configs = ObjectiveConfig(c),
        !.enable_monitoring_pipeline_logs = TRUE]

JobId(j) == Last(j.resource_name)

\* The identifier the service gives a new job.
FreshJobId == ToString(Cardinality(jobs) + 1)

\* Lines 239-245: the log filter (one clause per line) and the destination.
AnomalyLogFilter(c, job_id) ==
    <<<<"resource.type", "=", "aiplatform.googleapis.com/ModelDeploymentMonitoringJob">>,
      <<"resource.labels.location", "=", c.monitoring_location>>,
      <<"resource.labels.model_deployment_monitoring_job", "=", job_id>>,
      <<"logName", "=",
        <<"projects", c.project_id, "logs",
          "aiplatform.googleapis.com%2Fmodel_monitoring_anomaly">>>>,
      <<"severity", ">=", "WARNING">>>>

AnomalyLogDestination(c) ==
    <<"pubsub.googleapis.com", "projects", c.project_id, "topics", c.pubsub_topic_name>>

\* logging_client.sink(sink_name, filter_=..., destination=...), lines 112-120.
Sink(name, filter, destination) ==
    [name |-> name, filter |-> filter, destination |-> destination]

\* Line 86: the object name, the path without its first three segments.
BlobName(path) == SubSeq(path, 4, Len(path))

\* ------------------------------------------------------------- actions

Fail(p, kind, a, b) ==
    /\ pc' = [pc EXCEPT ![p] = "failed"]
    /\ error' = [error EXCEPT ![p] = [kind |-> kind, a |-> a, b |-> b]]

Issue(p, op, id, name) ==
    calls' = [calls EXCEPT ![p] = Append(@, Call(op, id, name))]

\* Lines 268-274: a new run of the script parses its configuration file.
LoadConfig(p) ==
    /\ pc[p] = "idle"
    /\ runs < MaxRuns
    /\ runs' = runs + 1
    /\ \/ /\ \E c \in Configs : config' = [config EXCEPT ![p] = c]
          /\ pc' = [pc EXCEPT ![p] = "main"]
          /\ UNCHANGED error
       \/ /\ Fail(p, "YAMLError", <<>>, "")
          /\ UNCHANGED config
    /\ UNCHANGED <<job_list, job, sink_found, calls, jobs0, sinks0,
                   jobs, sinks, blobs, local_file, iam>>

\* Mutant of CheckParams: the upload is skipped although params are given.
CheckParamsNoUpload(p) ==
    /\ pc[p] = "main"
    /\ LET c == config[p] IN
        IF MissingIn(c, ReadsCondition)
        THEN Fail(p, "KeyError", <<FirstMissing(c, ReadsCondition)>>, "")
        ELSE IF Truthy(c.auto_retraining_params)
        THEN IF MissingIn(c, ReadsUpload)
             THEN Fail(p, "KeyError", <<FirstMissing(c, ReadsUpload)>>, "")
             ELSE /\ pc' = [pc EXCEPT ![p] = "call_job"]
                  /\ UNCHANGED error
        ELSE /\ pc' = [pc EXCEPT ![p] = "call_job"]
             /\ UNCHANGED error
    /\ UNCHANGED <<config, job_list, job, sink_found, calls, jobs0, sinks0,
                   runs, jobs, sinks, blobs, local_file, iam>>

\* Lines 276-281: the condition, and the arguments of the upload call.
CheckParams(p) ==
    /\ pc[p] = "main"
    /\ LET c == config[p] IN
        IF MissingIn(c, ReadsCondition)
        THEN Fail(p, "KeyError", <<FirstMissing(c, ReadsCondition)>>, "")
        ELSE IF Truthy(c.auto_retraining_params)
        THEN IF MissingIn(c, ReadsUpload)
             THEN Fail(p, "KeyError", <<FirstMissing(c, ReadsUpload)>>, "")
             ELSE /\ pc' = [pc EXCEPT ![p] = "upload_write"]
                  /\ UNCHANGED error
        ELSE /\ pc' = [pc EXCEPT ![p] = "call_job"]
             /\ UNCHANGED error
    /\ UNCHANGED <<config, job_list, job, sink_found, calls, jobs0, sinks0,
                   runs, jobs, sinks, blobs, local_file, iam>>

\* Line 79: the params mapping with the spec path set, in the caller's dict.
ParamsAfterUpload(c) ==
    DictSet(c.auto_retraining_params, "gs_pipeline_spec_path", c.gs_pipeline_job_spec_path)

\* Lines 79-82: set the spec path, serialize, write the local file.
UploadWrite(p) ==
    /\ pc[p] = "upload_write"
    /\ LET c == config[p]
           params == ParamsAfterUpload(c)
       IN /\ config' = [config EXCEPT ![p].auto_retraining_params = params]
          /\ Issue(p, "write_file", "", "automatic_retraining_parameters.json")
          /\ \E ok \in BOOLEAN :
                IF ok
                THEN /\ local_file' = [exists |-> TRUE, text |-> JsonDumps(params)]
                     /\ pc' = [pc EXCEPT ![p] = "upload_blob"]
                     /\ UNCHANGED error
                ELSE /\ Fail(p, "OSError", <<>>, "")
                     /\ UNCHANGED local_file
    /\ UNCHANGED <<job_list, job, sink_found, jobs0, sinks0, runs, jobs, sinks, blobs, iam>>

\* Lines 84-89: upload the local file to the bucket.
UploadBlob(p) ==
    /\ pc[p] = "upload_blob"
    /\ LET c == config[p]
           name == BlobName(c.gs_auto_retraining_params_path)
       IN /\ Issue(p, "storage_upload", "", c.storage_bucket_name)
          /\ \E ok \in BOOLEAN :
                IF ok /\ local_file.exists
                THEN /\ blobs' = {b \in blobs :
                                    ~(b.bucket = c.storage_bucket_name /\ b.name = name)}
                                 \cup {[bucket |-> c.storage_bucket_name, name |-> name,
                                        text |-> local_file.text]}
                     /\ pc' = [pc EXCEPT ![p] = "call_job"]
                     /\ UNCHANGED error
                ELSE /\ Fail(p, "StorageError", <<>>, "")
                     /\ UNCHANGED blobs
    /\ UNCHANGED <<config, job_list, job, sink_found, jobs0, sinks0, runs, jobs, sinks,
                   local_file, iam>>

\* Lines 283-298: the arguments of create_or_update_monitoring_job.
CallJob(p) ==
    /\ pc[p] = "call_job"
    /\ LET c == config[p] IN
        IF MissingIn(c, ReadsJob)
        THEN /\ Fail(p, "KeyError", <<FirstMissing(c, ReadsJob)>>, "")
             /\ UNCHANGED <<jobs0, sinks0>>
        ELSE /\ pc' = [pc EXCEPT ![p] = "endpoint"]
             /\ jobs0' = [jobs0 EXCEPT ![p] = jobs]
             /\ sinks0' = [sinks0 EXCEPT ![p] = sinks]
             /\ UNCHANGED error
    /\ UNCHANGED <<config, job_list, job, sink_found, calls, runs, jobs, sinks, blobs,
                   local_file, iam>>

\* Mutant of AfterUpsert: the retraining wiring is not guarded by the params.
AfterUpsertAlways(c) == "sink_exists"

\* Line 236: where the function goes after the job upsert.
AfterUpsert(c) == IF Truthy(c.auto_retraining_params) THEN "sink_exists" ELSE "done"

\* Mutant of EndpointLookup: an empty lookup result is not checked.
EndpointLookupNoCheck(p) ==
    /\ pc[p] = "endpoint"
    /\ LET c == config[p]
           endpoint_list == {e \in Endpoints :
                                /\ e.location = c.monitoring_location
                                /\ e.id = Last(c.model_endpoint)}
       IN /\ Issue(p, "endpoint_list", Last(c.model_endpoint), c.monitoring_location)
          /\ \E ok \in BOOLEAN :
                IF ~ok
                THEN Fail(p, "RemoteError", <<>>, "")
                ELSE /\ pc' = [pc EXCEPT ![p] = "job_list"]
                     /\ UNCHANGED error
    /\ UNCHANGED <<config, job_list, job, sink_found, jobs0, sinks0, runs, jobs, sinks,
                   blobs, local_file, iam>>

\* Lines 167-174: resolve the endpoint in the monitoring location.
EndpointLookup(p) ==
    /\ pc[p] = "endpoint"
    /\ LET c == config[p]
           endpoint_list == {e \in Endpoints :
                                /\ e.location = c.monitoring_location
                                /\ e.id = Last(c.model_endpoint)}
       IN /\ Issue(p, "endpoint_list", Last(c.model_endpoint), c.monitoring_location)
          /\ \E ok \in BOOLEAN :
                IF ~ok
                THEN Fail(p, "RemoteError", <<>>, "")
                ELSE IF endpoint_list = {}
                THEN Fail(p, "ValueError", c.model_endpoint, c.monitoring_location)
                ELSE /\ pc' = [pc EXCEPT ![p] = "job_list"]
                     /\ UNCHANGED error
    /\ UNCHANGED <<config, job_list, job, sink_found, jobs0, sinks0, runs, jobs, sinks,
                   blobs, local_file, iam>>

\* Mutant of JobList: the list is filtered on the sink name, not the display name.
JobListWrongFilter(p) ==
    /\ pc[p] = "job_list"
    /\ LET c == config[p] IN
        /\ Issue(p, "job_list", "", c.job_display_name)
        /\ \E ok \in BOOLEAN :
            IF ok
            THEN /\ \E l \in Orderings({j \in jobs : j.display_name = c.log_sink_name}) :
                        job_list' = [job_list EXCEPT ![p] = l]
                 /\ pc' = [pc EXCEPT ![p] = "job_upsert"]
                 /\ UNCHANGED error
            ELSE /\ Fail(p, "RemoteError", <<>>, "")
                 /\ UNCHANGED job_list
    /\ UNCHANGED <<config, job, sink_found, jobs0, sinks0, runs, jobs, sinks, blobs,
                   local_file, iam>>

\* Lines 210-211: list the jobs whose display name is the configured one.
JobList(p) ==
    /\ pc[p] = "job_list"
    /\ LET c == config[p] IN
        /\ Issue(p, "job_list", "", c.job_display_name)
        /\ \E ok \in BOOLEAN :
            IF ok
            THEN /\ \E l \in Orderings({j \in jobs : j.display_name = c.job_display_name}) :
                        job_list' = [job_list EXCEPT ![p] = l]
                 /\ pc' = [pc EXCEPT ![p] = "job_upsert"]
                 /\ UNCHANGED error
            ELSE /\ Fail(p, "RemoteError", <<>>, "")
                 /\ UNCHANGED job_list
    /\ UNCHANGED <<config, job, sink_found, jobs0, sinks0, runs, jobs, sinks, blobs,
                   local_file, iam>>

\* Mutant of JobCreate: a job is created whatever the lookup returned.
JobCreateAlways(p) ==
    /\ pc[p] = "job_upsert"
    /\ LET c == config[p] IN
        /\ Issue(p, "job_create", "", c.job_display_name)
        /\ \E ok \in BOOLEAN :
            IF ok
            THEN /\ jobs' = jobs \cup {NewJob(c, FreshJobId)}
                 /\ job' = [job EXCEPT ![p] = FreshJobId]
                 /\ pc' = [pc EXCEPT ![p] = AfterUpsert(c)]
                 /\ UNCHANGED error
            ELSE /\ Fail(p, "RemoteError", <<>>, "")
                 /\ \E applied \in BOOLEAN :
                        jobs' = IF applied THEN jobs \cup {NewJob(c, FreshJobId)} ELSE jobs
                 /\ UNCHANGED job
    /\ UNCHANGED <<config, job_list, sink_found, jobs0, sinks0, runs, sinks, blobs,
                   local_file, iam>>

\* Lines 212-223: no job of that display name was listed: create one. A call
\* that raises may or may not have created the job on the service.
JobCreate(p) ==
    /\ pc[p] = "job_upsert"
    /\ job_list[p] = <<>>
    /\ LET c == config[p] IN
        /\ Issue(p, "job_create", "", c.job_display_name)
        /\ \E ok \in BOOLEAN :
            IF ok
            THEN /\ jobs' = jobs \cup {NewJob(c, FreshJobId)}
                 /\ job' = [job EXCEPT ![p] = FreshJobId]
                 /\ pc' = [pc EXCEPT ![p] = AfterUpsert(c)]
                 /\ UNCHANGED error
            ELSE /\ Fail(p, "RemoteError", <<>>, "")
                 /\ \E applied \in BOOLEAN :
                        jobs' = IF applied THEN jobs \cup {NewJob(c, FreshJobId)} ELSE jobs
                 /\ UNCHANGED job
    /\ UNCHANGED <<config, job_list, sink_found, jobs0, sinks0, runs, sinks, blobs,
                   local_file, iam>>

\* Mutant of JobUpdate: the last listed job is updated, not the first.
JobUpdateLast(p) ==
    /\ pc[p] = "job_upsert"
    /\ job_list[p] # <<>>
    /\ LET c == config[p]
           old_job_id == Last(Last(job_list[p]).resource_name)
       IN /\ Issue(p, "job_update", old_job_id, c.job_display_name)
          /\ \E ok \in BOOLEAN :
                IF ok /\ \E j \in jobs : JobId(j) = old_job_id
                THEN /\ jobs' = {IF JobId(j) = old_job_id THEN UpdatedJob(j, c) ELSE j :
                                    j \in jobs}
                     /\ job' = [job EXCEPT ![p] = old_job_id]
                     /\ pc' = [pc EXCEPT ![p] = AfterUpsert(c)]
                     /\ UNCHANGED error
                ELSE /\ Fail(p, "RemoteError", <<>>, "")
                     /\ UNCHANGED <<jobs, job>>
    /\ UNCHANGED <<config, job_list, sink_found, jobs0, sinks0, runs, sinks, blobs,
                   local_file, iam>>

\* Lines 224-234: update the first listed job in place.
JobUpdate(p) ==
    /\ pc[p] = "job_upsert"
    /\ job_list[p] # <<>>
    /\ LET c == config[p]
           old_job_id == Last(job_list[p][1].resource_name)
       IN /\ Issue(p, "job_update", old_job_id, c.job_display_name)
          /\ \E ok \in BOOLEAN :
                IF ok /\ \E j \in jobs : JobId(j) = old_job_id
                THEN /\ jobs' = {IF JobId(j) = old_job_id THEN UpdatedJob(j, c) ELSE j :
                                    j \in jobs}
                     /\ job' = [job EXCEPT ![p] = old_job_id]
                     /\ pc' = [pc EXCEPT ![p] = AfterUpsert(c)]
                     /\ UNCHANGED error
                ELSE /\ Fail(p, "RemoteError", <<>>, "")
                     /\ UNCHANGED <<jobs, job>>
    /\ UNCHANGED <<config, job_list, sink_found, jobs0, sinks0, runs, sinks, blobs,
                   local_file, iam>>

\* Lines 236-250 and 108-111: build filter and destination, ask whether the sink exists.
SinkExists(p) ==
    /\ pc[p] = "sink_exists"
    /\ LET c == config[p] IN
        /\ Issue(p, "sink_exists", "", c.log_sink_name)
        /\ \E ok \in BOOLEAN :
            IF ok
            THEN /\ sink_found' = [sink_found EXCEPT ![p] =
                                    \E s \in sinks : s.name = c.log_sink_name]
                 /\ pc' = [pc EXCEPT ![p] = "sink_upsert"]
                 /\ UNCHANGED error
            ELSE /\ Fail(p, "RemoteError", <<>>, "")
                 /\ UNCHANGED sink_found
    /\ UNCHANGED <<config, job_list, job, jobs0, sinks0, runs, jobs, sinks, blobs,
                   local_file, iam>>

\* The sink both branches of create_or_update_sink build (lines 112-114, 118-120).
NewSink(p) ==
    Sink(config[p].log_sink_name,
         AnomalyLogFilter(config[p], job[p]),
         AnomalyLogDestination(config[p]))

\* Mutant of SinkUpdate: update() is sent for the sink object of line 109,
\* which carries no new filter or destination.
SinkUpdateStale(p) ==
    /\ pc[p] = "sink_upsert"
    /\ sink_found[p]
    /\ Issue(p, "sink_update", job[p], NewSink(p).name)
    /\ \E ok \in BOOLEAN :
        IF ok /\ \E s \in sinks : s.name = NewSink(p).name
        THEN /\ sinks' = sinks
             /\ pc' = [pc EXCEPT ![p] = "iam"]
             /\ UNCHANGED error
        ELSE /\ Fail(p, "RemoteError", <<>>, "")
             /\ UNCHANGED sinks
    /\ UNCHANGED <<config, job_list, job, sink_found, jobs0, sinks0, runs, jobs, blobs,
                   local_file, iam>>

\* Lines 111-116: the sink exists: update it.
SinkUpdate(p) ==
    /\ pc[p] = "sink_upsert"
    /\ sink_found[p]
    /\ Issue(p, "sink_update", job[p], NewSink(p).name)
    /\ \E ok \in BOOLEAN :
        IF ok /\ \E s \in sinks : s.name = NewSink(p).name
        THEN /\ sinks' = {IF s.name = NewSink(p).name THEN NewSink(p) ELSE s : s \in sinks}
             /\ pc' = [pc EXCEPT ![p] = "iam"]
             /\ UNCHANGED error
        ELSE /\ Fail(p, "RemoteError", <<>>, "")
             /\ UNCHANGED sinks
    /\ UNCHANGED <<config, job_list, job, sink_found, jobs0, sinks0, runs, jobs, blobs,
                   local_file, iam>>

\* Lines 117-122: the sink does not exist: create it (the service refuses a
\* second sink of the same name).
SinkCreate(p) ==
    /\ pc[p] = "sink_upsert"
    /\ ~sink_found[p]
    /\ Issue(p, "sink_create", job[p], NewSink(p).name)
    /\ \E ok \in BOOLEAN :
        IF ok /\ ~\E s \in sinks : s.name = NewSink(p).name
        THEN /\ sinks' = sinks \cup {NewSink(p)}
             /\ pc' = [pc EXCEPT ![p] = "iam"]
             /\ UNCHANGED error
        ELSE /\ Fail(p, "RemoteError", <<>>, "")
             /\ UNCHANGED sinks
    /\ UNCHANGED <<config, job_list, job, sink_found, jobs0, sinks0, runs, jobs, blobs,
                   local_file, iam>>

\* Lines 252-264 and 28-45: print the confirmation, run the gcloud command.
IamGrant(p) ==
    /\ pc[p] = "iam"
    /\ Issue(p, "iam_grant", "", config[p].project_id)
    /\ \E ok \in BOOLEAN :
        IF ok
        THEN /\ iam' = iam \cup {config[p].project_id}
             /\ pc' = [pc EXCEPT ![p] = "done"]
             /\ UNCHANGED error
        ELSE /\ Fail(p, "RuntimeError", <<>>, "")
             /\ UNCHANGED iam
    /\ UNCHANGED <<config, job_list, job, sink_found, jobs0, sinks0, runs, jobs, sinks,
                   blobs, local_file>>

\* The process exits (after line 298, or with the uncaught exception): its
\* memory is gone, the remote registries and the local file remain.
Exit(p) ==
    /\ pc[p] \in {"done", "failed"}
    /\ pc' = [pc EXCEPT ![p] = "idle"]
    /\ config' = [config EXCEPT ![p] = DefaultConfig]
    /\ error' = [error EXCEPT ![p] = NoError]
    /\ job_list' = [job_list EXCEPT ![p] = <<>>]
    /\ job' = [job EXCEPT ![p] = ""]
    /\ sink_found' = [sink_found EXCEPT ![p] = FALSE]
    /\ calls' = [calls EXCEPT ![p] = <<>>]
    /\ jobs0' = [jobs0 EXCEPT ![p] = jobs]
    /\ sinks0' = [sinks0 EXCEPT ![p] = sinks]
    /\ UNCHANGED <<runs, jobs, sinks, blobs, local_file, iam>>

\* --------------------------------------------------------- specifications

OldSink ==
    Sink("sink2", AnomalyLogFilter(DefaultConfig, "1"), AnomalyLogDestination(DefaultConfig))

\* Registries <<jobs, sinks>> a first run may find: nothing; one job and the
\* sink of an earlier deployment; two jobs of one display name.
InitRegistries ==
    {<<{}, {}>>,
     <<{NewJob(DefaultConfig, "1")}, {OldSink}>>,
     <<{NewJob(DefaultConfig, "1"), NewJob(DefaultConfig, "2")}, {}>>}

InitLocals ==
    /\ blobs = {}
    /\ local_file = [exists |-> FALSE, text |-> <<>>]
    /\ iam = {}
    /\ error = [p \in Procs |-> NoError]
    /\ job_list = [p \in Procs |-> <<>>]
    /\ job = [p \in Procs |-> ""]
    /\ sink_found = [p \in Procs |-> FALSE]
    /\ calls = [p \in Procs |-> <<>>]
    /\ jobs0 = [p \in Procs |-> jobs]
    /\ sinks0 = [p \in Procs |-> sinks]
    /\ runs = 0

\* A single invoker running the script again and again.
Init ==
    /\ pc = [p \in Procs |-> IF p = 1 THEN "idle" ELSE "off"]
    /\ \E r \in InitRegistries : jobs = r[1] /\ sinks = r[2]
    /\ config = [p \in Procs |-> DefaultConfig]
    /\ InitLocals

Run(p) ==
    \/ LoadConfig(p)
    \/ CheckParams(p)
    \/ UploadWrite(p)
    \/ UploadBlob(p)
    \/ CallJob(p)
    \/ EndpointLookup(p)
    \/ JobList(p)
    \/ JobCreate(p)
    \/ JobUpdate(p)
    \/ SinkExists(p)
    \/ SinkUpdate(p)
    \/ SinkCreate(p)
    \/ IamGrant(p)
    \/ Exit(p)

Next == \E p \in Procs : Run(p)

Spec == Init /\ [][Next]_vars

\* Arguments of two concurrent calls of create_or_update_monitoring_job: the
\* params mapping, when given, is the one upload_automatic_retraining_parameters left.
ConcConfigs ==
    {[DefaultConfig EXCEPT !.auto_retraining_params = a, !.job_display_name = n] :
        a \in {PyNone, ParamsAfterUpload([DefaultConfig EXCEPT
                          !.auto_retraining_params = Dict(<<<<"a", "1">>>>)])},
        n \in {"job1", "job2"}}

\* Two invokers, each inside one call of create_or_update_monitoring_job
\* (lines 167-264), against one registry.
InitConc ==
    /\ pc = [p \in Procs |-> "endpoint"]
    /\ jobs \in {{}, {NewJob(DefaultConfig, "1")}}
    /\ sinks = {}
    /\ config \in [Procs -> ConcConfigs]
    /\ InitLocals

Call2(p) ==
    \/ EndpointLookup(p)
    \/ JobList(p)
    \/ JobCreate(p)
    \/ JobUpdate(p)
    \/ SinkExists(p)
    \/ SinkUpdate(p)
    \/ SinkCreate(p)
    \/ IamGrant(p)

NextConc == \E p \in Procs : Call2(p)

SpecConc == InitConc /\ [][NextConc]_vars

\* ------------------------------------------------------------- claims

WiringOps ==
    {"write_file", "storage_upload", "sink_exists", "sink_create", "sink_update",
     "iam_grant"}

JobOps == {"job_list", "job_create", "job_update"}

Issued(p, op) == \E i \in 1..Len(calls[p]) : calls[p][i].op = op

IsPrefix(a, b) == Len(a) <= Len(b) /\ SubSeq(b, 1, Len(a)) = a

\* C1: in a run whose auto_retraining_params is empty or None, no local write,
\* storage upload, sink call or IAM grant is ever issued and the sink registry
\* is untouched; a completed run issued exactly the endpoint lookup, the job
\* lookup and one job create or update.
C1_NoWiringWithoutParams ==
    \A p \in Procs :
        (pc[p] # "off" /\ ~Truthy(config[p].auto_retraining_params)) =>
            /\ \A i \in 1..Len(calls[p]) : calls[p][i].op \notin WiringOps
            /\ sinks = sinks0[p]
            /\ pc[p] = "done" =>
                Ops(p) \in {<<"endpoint_list", "job_list", "job_create">>,
                            <<"endpoint_list", "job_list", "job_update">>}

C1_Witness ==
    /\ pc[1] = "done"
    /\ config[1].auto_retraining_params = Dict(<<>>)
    /\ Issued(1, "job_create")
    /\ local_file.exists

\* The complete call orders of a run with retraining parameters.
FullOrders ==
    {<<"write_file", "storage_upload", "endpoint_list", "job_list", u,
       "sink_exists", k, "iam_grant">> :
        u \in {"job_create", "job_update"}, k \in {"sink_create", "sink_update"}}

\* C2: in a run whose auto_retraining_params is non-empty the calls issued so
\* far are always an initial part of: local write, storage upload, endpoint
\* lookup, job lookup, job create or update, sink lookup, sink create or
\* update, IAM grant; a run that completes has issued exactly that sequence.
C2_WiringOrder ==
    \A p \in Procs :
        (pc[p] # "off" /\ Truthy(config[p].auto_retraining_params)) =>
            /\ \E full \in FullOrders : IsPrefix(Ops(p), full)
            /\ pc[p] = "done" => Ops(p) \in FullOrders

C2_Witness ==
    /\ pc[1] = "done"
    /\ Truthy(config[1].auto_retraining_params)
    /\ Ops(1) = <<"write_file", "storage_upload", "endpoint_list", "job_list",
                  "job_update", "sink_exists", "sink_create", "iam_grant">>

\* Whether the job upsert of invocation p has returned.
UpsertReturned(p) == pc[p] \in {"sink_exists", "sink_upsert", "iam", "done"}

\* C3: one invocation issues at most one job create or update; a create is
\* issued only on an empty job list and an update only on a non-empty one,
\* naming the last resource-name segment of the first listed job; once the
\* upsert has returned exactly one such call was made and the job it returned
\* is the created or the first listed one.
C3_CreateXorUpdate ==
    \A p \in Procs :
        /\ Count(p, "job_create") + Count(p, "job_update") <= 1
        /\ Issued(p, "job_create") => job_list[p] = <<>>
        /\ \A i \in 1..Len(calls[p]) :
                calls[p][i].op = "job_update" =>
                    /\ job_list[p] # <<>>
                    /\ calls[p][i].id = Last(job_list[p][1].resource_name)
        /\ UpsertReturned(p) =>
            /\ Count(p, "job_create") + Count(p, "job_update") = 1
            /\ job_list[p] = <<>> => Issued(p, "job_create")
            /\ job_list[p] # <<>> =>
                /\ Issued(p, "job_update")
                /\ job[p] = Last(job_list[p][1].resource_name)

C3_Witness ==
    /\ pc[1] = "done"
    /\ Len(job_list[1]) = 2
    /\ Issued(1, "job_update")
    /\ job[1] = "2"

JobsUnique(J) == \A j1, j2 \in J : j1.display_name = j2.display_name => j1 = j2

SinksUnique(S) == \A s1, s2 \in S : s1.name = s2.name => s1 = s2

\* C4: no step of a run, successful or failing, takes a registry with at most
\* one job per display name and at most one sink per sink name to a registry
\* without that property.
C4_UniquePreserved ==
    [][(JobsUnique(jobs) /\ SinksUnique(sinks)) =>
        (JobsUnique(jobs') /\ SinksUnique(sinks'))]_vars

C4_Witness ==
    /\ runs = 2
    /\ pc[1] = "done"
    /\ Issued(1, "job_create")
    /\ Issued(1, "sink_update")
    /\ Cardinality(jobs) = 2
    /\ JobsUnique(jobs)
    /\ SinksUnique(sinks)

EndpointFound(c) ==
    \E e \in Endpoints :
        e.location = c.monitoring_location /\ e.id = Last(c.model_endpoint)

\* C5: the invocation goes past the endpoint lookup only if the lookup found
\* the endpoint; when it found none the invocation has failed with a
\* ValueError naming the configured model_endpoint and monitoring_location,
\* the lookup is the last call issued, no job, sink or IAM call was issued,
\* and the job and sink registries are as they were when the call began.
C5_EndpointNotFound ==
    \A p \in Procs :
        /\ (pc[p] \in {"job_list", "job_upsert"} \/ UpsertReturned(p)) =>
                EndpointFound(config[p])
        /\ error[p].kind = "ValueError" =>
            /\ pc[p] = "failed"
            /\ ~EndpointFound(config[p])
            /\ error[p].a = config[p].model_endpoint
            /\ error[p].b = config[p].monitoring_location
            /\ calls[p] # <<>> /\ Last(calls[p]).op = "endpoint_list"
            /\ \A i \in 1..Len(calls[p]) :
                    calls[p][i].op \notin
                        JobOps \cup {"sink_exists", "sink_create", "sink_update", "iam_grant"}
            /\ jobs = jobs0[p]
            /\ sinks = sinks0[p]

C5_Witness ==
    /\ error[1].kind = "ValueError"
    /\ Truthy(config[1].auto_retraining_params)
    /\ Issued(1, "storage_upload")
    /\ jobs # {}

RemoteOps ==
    {"storage_upload", "endpoint_list", "job_list", "job_create", "job_update",
     "sink_exists", "sink_create", "sink_update", "iam_grant"}

\* C6: a run that ended with a configuration error (the YAML did not parse, or
\* a key was missing) has issued no storage upload, endpoint lookup, job call,
\* sink call or IAM grant.
C6_ConfigErrorBeforeRemote ==
    \A p \in Procs :
        error[p].kind \in {"YAMLError", "KeyError"} =>
            \A i \in 1..Len(calls[p]) : calls[p][i].op \notin RemoteOps

\* Whether upload_automatic_retraining_parameters was called and has returned.
UploadReturned(p) ==
    /\ Issued(p, "storage_upload")
    /\ pc[p] \in {"call_job", "endpoint", "job_list", "job_upsert", "sink_exists",
                  "sink_upsert", "iam", "done"}

\* C7: once upload_automatic_retraining_parameters has returned, the caller's
\* auto_retraining_params mapping has no spec-path key: it is the configured
\* mapping, and only the written artifact carries the injected entry.
C7_CallerMappingUnchanged ==
    \A p \in Procs :
        UploadReturned(p) =>
            /\ ~HasKey(config[p].auto_retraining_params, "gs_pipeline_spec_path")
            /\ config[p].auto_retraining_params \in ParamChoices

\* C8: create_or_update_sink issues at most one create or update, always under
\* the configured sink name: a create only when no sink of that name existed,
\* an update only when one did; once it has returned exactly one such call was
\* made, the registry holds exactly one sink of that name, with the new filter
\* and destination, and the sinks of other names are untouched.
C8_SinkUpsert ==
    \A p \in Procs :
        pc[p] # "off" =>
            LET c == config[p]
                name == c.log_sink_name
                want == Sink(name, AnomalyLogFilter(c, job[p]), AnomalyLogDestination(c))
            IN /\ Count(p, "sink_create") + Count(p, "sink_update") <= 1
               /\ \A i \in 1..Len(calls[p]) :
                    calls[p][i].op \in {"sink_exists", "sink_create", "sink_update"} =>
                        calls[p][i].name = name
               /\ Issued(p, "sink_create") => ~\E s \in sinks0[p] : s.name = name
               /\ Issued(p, "sink_update") => \E s \in sinks0[p] : s.name = name
               /\ (pc[p] = "iam" \/ Issued(p, "iam_grant")) =>
                    /\ Count(p, "sink_create") + Count(p, "sink_update") = 1
                    /\ want \in sinks
                    /\ \A s \in sinks : s.name = name => s = want
                    /\ \A s \in sinks0[p] : s.name # name => s \in sinks

C8_Witness ==
    /\ pc[1] = "iam"
    /\ Issued(1, "sink_update")
    /\ \E s \in sinks0[1] :
            /\ s.name = config[1].log_sink_name
            /\ s.filter # AnomalyLogFilter(config[1], job[1])
    /\ Cardinality(sinks) = 2

\* C9: the job a create or update call returned holds a skew-detection config
\* exactly when skew_thresholds is non-empty (then with those thresholds, the
\* training dataset and the target field), a drift-detection config exactly
\* when drift_thresholds is non-empty, and never an explanation config.
C9_ObjectiveConfig ==
    \A p \in Procs :
        (pc[p] # "off" /\ job[p] # "") =>
            /\ \E j \in jobs : JobId(j) = job[p]
            /\ \A j \in jobs :
                JobId(j) = job[p] =>
                    LET o == j.objective_configs
                        c == config[p]
                    IN /\ o.skew.present <=> Truthy(c.skew_thresholds)
                       /\ o.drift.present <=> Truthy(c.drift_thresholds)
                       /\ ~o.explanation.present
                       /\ o.skew.present =>
                            /\ o.skew.thresholds = c.skew_thresholds.items
                            /\ o.skew.data_source = c.training_dataset
                            /\ o.skew.target_field = c.target_field
                       /\ o.drift.present =>
                            o.drift.thresholds = c.drift_thresholds.items

C9_Witness ==
    /\ Issued(1, "job_update")
    /\ job[1] # ""
    /\ Truthy(config[1].skew_thresholds)
    /\ ~Truthy(config[1].drift_thresholds)
    /\ \E j \in jobs :
            /\ JobId(j) = job[1]
            /\ j.objective_configs.skew.present
            /\ ~j.objective_configs.drift.present

\* C10: with two concurrent invocations, two distinct jobs of one display name
\* exist only when both invocations were given that display name, both
\* listed no job of that name, and both issued a create call.
C10_DuplicateOnlyByRacingCreates ==
    \A j1, j2 \in jobs :
        (j1 # j2 /\ j1.display_name = j2.display_name) =>
            \A p \in Procs :
                /\ config[p].job_display_name = j1.display_name
                /\ job_list[p] = <<>>
                /\ Issued(p, "job_create")

\* Both lookups returned no job, both creates succeeded, and the registry,
\* which held no job of that name, now holds two.
C10_Witness ==
    /\ \A p \in Procs : job_list[p] = <<>> /\ Issued(p, "job_create") /\ job[p] # ""
    /\ job[1] # job[2]
    /\ config[1].job_display_name = config[2].job_display_name
    /\ ~\E j \in jobs0[1] : j.display_name = config[1].job_display_name
    /\ ~JobsUnique(jobs)

====
